---- MODULE Spec2Model ----
(***************************************************************************)
(* A model of pypdfcrop (src/pypdfcrop.py): cropping a PDF by appending an *)
(* incremental update.                                                     *)
(*                                                                         *)
(* Byte strings are sequences of elements [c, n, obj].  An ordinary byte   *)
(* is [c |-> <one character>, n |-> 1]; a run of n bytes whose text the    *)
(* program never looks at (the body of the document, a serialized          *)
(* dictionary written by pyPdf) is one element [c |-> "#", n |-> n] that   *)
(* also carries the object it serializes.                                  *)
(***************************************************************************)
EXTENDS Integers, Sequences, FiniteSets, TLC

VARIABLES
    args,       \* sys.argv after option parsing: the input file names
    rawopts,    \* the option values as optparse returns them (line 175)
    opts,       \* the options after lines 187-194
    fs,         \* the file system: file name -> byte string
    pc,         \* the statement the program is at
    fi,         \* position in args of the file being cropped (1-based)
    rd,         \* locals of crop(): reader, bboxes, pages, trailer, ...
    events,     \* what the program has done so far, in order
    lib,        \* what pyPdf makes of each input file: protection and pages
    fnIn,       \* pure-function harness: the call
    fnOut       \* pure-function harness: its result

vars == <<args, rawopts, opts, fs, lib, pc, fi, rd, events, fnIn, fnOut>>

mainVars == <<args, rawopts, opts, fs, lib, pc, fi, rd, events>>

(***************************************************************************)
(* Byte strings                                                            *)
(***************************************************************************)
NoObj == [kind |-> "none"]

Ch(c) == [c |-> c, n |-> 1, obj |-> NoObj]

\* a Python string literal, given as the tuple of its characters
Text(s) == [i \in 1..Len(s) |-> Ch(s[i])]

\* n bytes of serialized, non-blank data standing for object o
Blob(n, o) == <<[c |-> "#", n |-> n, obj |-> o]>>

\* the bytes in f[lo..hi]
RECURSIVE SumRange(_, _, _)
SumRange(f, lo, hi) ==
    IF lo > hi THEN 0
    ELSE IF lo = hi THEN f[lo].n
    ELSE LET mid == (lo + hi) \div 2
         IN  SumRange(f, lo, mid) + SumRange(f, mid + 1, hi)

\* len(s) in bytes
ByteLen(f) == SumRange(f, 1, Len(f))

\* str.isspace for one element
IsSpace(e) == e.c \in {" ", "\n", "\t", "\r"}

\* the last w bytes of f, for w <= ByteLen(f)
LastBytes(f, w) ==
    IF w = 0 THEN << >>
    ELSE LET k == CHOOSE i \in 1..Len(f) :
                     /\ SumRange(f, i, Len(f)) >= w
                     /\ SumRange(f, i + 1, Len(f)) < w
         IN  <<[f[k] EXCEPT !.n = w - SumRange(f, k + 1, Len(f))]>>
             \o SubSeq(f, k + 1, Len(f))

MergeTokens(a, b) ==
    [t |-> a.t \o b.t, off |-> a.off,
     obj |-> IF a.obj # NoObj THEN a.obj ELSE b.obj]

\* the tokens of two neighbouring ranges put together: the last token of l
\* and the first of r are one token when no blank separates the ranges
JoinTokens(l, r, glue) ==
    IF glue /\ l # << >> /\ r # << >>
    THEN SubSeq(l, 1, Len(l) - 1) \o <<MergeTokens(l[Len(l)], r[1])>> \o Tail(r)
    ELSE l \o r

\* the blank-separated tokens of f[lo..hi], f[lo] being at byte offset base:
\* each with its text, the byte offset it starts at, and the object its
\* serialized data stands for
RECURSIVE TokensRange(_, _, _, _)
TokensRange(f, lo, hi, base) ==
    IF lo > hi THEN << >>
    ELSE IF lo = hi
    THEN IF IsSpace(f[lo]) THEN << >>
         ELSE <<[t |-> <<f[lo].c>>, off |-> base, obj |-> f[lo].obj]>>
    ELSE LET mid == (lo + hi) \div 2
         IN  JoinTokens(TokensRange(f, lo, mid, base),
                        TokensRange(f, mid + 1, hi, base + SumRange(f, lo, mid)),
                        ~IsSpace(f[mid]) /\ ~IsSpace(f[mid + 1]))

Tokens(f) == TokensRange(f, 1, Len(f), 0)

\* str.split(): the maximal runs of non-blank characters
Split(f) == LET toks == Tokens(f) IN [i \in 1..Len(toks) |-> toks[i].t]

\* str.startswith
StartsWith(tok, pre) ==
    Len(tok) >= Len(pre) /\ SubSeq(tok, 1, Len(pre)) = pre

DigitChars == <<"0", "1", "2", "3", "4", "5", "6", "7", "8", "9">>

IsDigit(c) == \E d \in 1..10 : DigitChars[d] = c

DigitVal(c) == (CHOOSE d \in 1..10 : DigitChars[d] = c) - 1

\* whether int(tok) succeeds: an optional sign and at least one digit
IsInt(tok) ==
    LET body == IF tok # << >> /\ tok[1] \in {"-", "+"} THEN Tail(tok) ELSE tok
    IN  body # << >> /\ \A i \in 1..Len(body) : IsDigit(body[i])

\* int(tok), for IsInt(tok)
ParseInt(tok) ==
    LET neg  == tok[1] = "-"
        body == IF tok[1] \in {"-", "+"} THEN Tail(tok) ELSE tok
        val[i \in 0..Len(body)] ==
            IF i = 0 THEN 0 ELSE 10 * val[i-1] + DigitVal(body[i])
    IN  IF neg THEN 0 - val[Len(body)] ELSE val[Len(body)]

RECURSIVE NatDigits(_)
NatDigits(n) ==
    IF n < 10 THEN <<DigitChars[n + 1]>>
    ELSE Append(NatDigits(n \div 10), DigitChars[(n % 10) + 1])

\* '%d' % n
FmtD(n) == IF n < 0 THEN <<"-">> \o NatDigits(0 - n) ELSE NatDigits(n)

RECURSIVE Zeros(_)
Zeros(k) == IF k <= 0 THEN << >> ELSE <<"0">> \o Zeros(k - 1)

\* '%0<w>d' % n: the sign first, then zeros up to a total width of w
FmtZero(w, n) ==
    IF n < 0
    THEN <<"-">> \o Zeros(w - 1 - Len(NatDigits(0 - n))) \o NatDigits(0 - n)
    ELSE Zeros(w - Len(NatDigits(n))) \o NatDigits(n)

(***************************************************************************)
(* Results of a call: a value or a raised exception                        *)
(***************************************************************************)
Ok(v) == [kind |-> "ok", value |-> v]

Raise(e) == [kind |-> "raise", exc |-> e]

(***************************************************************************)
(* findLastXrefStart                                                       *)
(***************************************************************************)
Window == 1024

StartXref == <<"s", "t", "a", "r", "t", "x", "r", "e", "f">>

\* stream.seek(-1024, 2) fails with EINVAL (an IOError) when the resulting
\* position would be negative
findLastXrefStart(stream) ==
    IF ByteLen(stream) < Window THEN Raise("IOError")
    ELSE LET lines == Split(LastBytes(stream, Window))
             n     == Len(lines)
         IN  IF n < 3 THEN Raise("IndexError")
             ELSE IF ~StartsWith(lines[n-2], StartXref) THEN Raise("ValueError")
             ELSE IF ~IsInt(lines[n-1]) THEN Raise("ValueError")
             ELSE Ok(ParseInt(lines[n-1]))

(***************************************************************************)
(* Option processing (the __main__ block)                                  *)
(***************************************************************************)
None == [set |-> FALSE]

Some(v) == [set |-> TRUE, v |-> v]

\* map(int, s.split()) for an option string s, given as its characters
IntList(s) ==
    LET toks == Split(Text(s))
    IN  [i \in 1..Len(toks) |-> ParseInt(toks[i])]

expand_margins(margins) ==
    LET m0 == IntList(margins)
        m1 == IF Len(m0) = 1 THEN Append(m0, m0[1]) ELSE m0
        m2 == IF Len(m1) = 2 THEN Append(m1, m1[1]) ELSE m1
        m3 == IF Len(m2) = 3 THEN Append(m2, m2[2]) ELSE m2
    IN  m3

\* lines 187-194: opts after the margins and the bounding box are converted
ProcessOptions(raw) ==
    LET margins == expand_margins(raw.margins)
    IN  [raw EXCEPT
            !.margins    = margins,
            !.altmargins = IF raw.altmargins.set
                           THEN expand_margins(raw.altmargins.v)
                           ELSE margins,
            !.bbox       = IF raw.bbox.set /\ raw.bbox.v # << >>
                           THEN Some(IntList(raw.bbox.v))
                           ELSE raw.bbox]

(***************************************************************************)
(* crop(): access negotiation, lines 49-68                                 *)
(***************************************************************************)
\* pdfrdr.getDocumentInfo(): works on a document that is not encrypted, or
\* has been decrypted, and whose information dictionary can be read
InfoReadable(doc, decrypted) == doc.infoOk /\ (~doc.encrypted \/ decrypted)

\* pdfrdr.decrypt(pw) followed by getDocumentInfo()
DecryptThenInfo(doc, pw) ==
    doc.encrypted /\ doc.userpw = pw /\ InfoReadable(doc, TRUE)

\* the attempts made, in order, and whether the document became readable
AccessNegotiation(doc, password) ==
    IF InfoReadable(doc, FALSE)
    THEN [readable |-> TRUE, attempts |-> <<"info">>]
    ELSE IF DecryptThenInfo(doc, "")
    THEN [readable |-> TRUE, attempts |-> <<"info", "decrypt_empty">>]
    ELSE IF password.set /\ password.v # ""
    THEN [readable |-> DecryptThenInfo(doc, password.v),
          attempts |-> <<"info", "decrypt_empty", "decrypt_given">>]
    ELSE [readable |-> FALSE, attempts |-> <<"info", "decrypt_empty">>]

(***************************************************************************)
(* crop(): bounding boxes, lines 70-89                                     *)
(***************************************************************************)
BBoxMarker == <<"%", "%", "B", "o", "u", "n", "d", "i", "n", "g", "B", "o", "x", ":">>

\* the lines of two neighbouring ranges put together: the last line of l
\* continues in the first line of r
JoinLines(l, r) ==
    SubSeq(l, 1, Len(l) - 1) \o <<l[Len(l)] \o r[1]>> \o Tail(r)

\* s[lo..hi].split('\n')
RECURSIVE SplitLinesRange(_, _, _)
SplitLinesRange(s, lo, hi) ==
    IF lo > hi THEN << << >> >>
    ELSE IF lo = hi
    THEN IF s[lo] = "\n" THEN << << >>, << >> >> ELSE << <<s[lo]>> >>
    ELSE LET mid == (lo + hi) \div 2
         IN  JoinLines(SplitLinesRange(s, lo, mid), SplitLinesRange(s, mid + 1, hi))

\* s.split('\n')
SplitLines(s) == SplitLinesRange(s, 1, Len(s))

\* [map(int, s.split()[1:]) for s in stderr.split('\n')
\*  if s.startswith('%%BoundingBox:')]
ParseBBoxes(stderr) ==
    LET lines == SelectSeq(SplitLines(stderr), LAMBDA l : StartsWith(l, BBoxMarker))
    IN  [i \in 1..Len(lines) |->
            LET toks == Tail(Split(Text(lines[i])))
            IN  [j \in 1..Len(toks) |-> ParseInt(toks[j])]]

(***************************************************************************)
(* crop(): the page loop, lines 92-104                                     *)
(***************************************************************************)
\* mutant: the parity test inverted
SelectMargins_Inverted(idx, margins, altmargins) ==
    IF idx % 2 = 0 /\ margins # << >> THEN margins ELSE altmargins

\* (idx % 2 and opts.margins) or opts.altmargins
SelectMargins(idx, margins, altmargins) ==
    IF idx % 2 # 0 /\ margins # << >> THEN margins ELSE altmargins

CropBoxOf(bbox, margins) ==
    <<bbox[1] - margins[1], bbox[2] - margins[2],
      bbox[3] + margins[3], bbox[4] + margins[4]>>

Min(a, b) == IF a < b THEN a ELSE b

\* zip(pdfrdr.pages, bboxes): how many pairs there are
ZipLen(docPages, bboxes) ==
    IF bboxes.kind = "repeat" THEN Len(docPages)
    ELSE Min(Len(docPages), Len(bboxes.boxes))

BBoxAt(bboxes, i) == IF bboxes.kind = "repeat" THEN bboxes.box ELSE bboxes.boxes[i]

\* the pages dictionary after the loop: reference -> page with its new CropBox
\* (docPages is 1-based here, so enumerate's idx is i - 1)
PageLoop(docPages, bboxes, margins, altmargins) ==
    LET n == ZipLen(docPages, bboxes)
    IN  [ref \in {docPages[i].ref : i \in 1..n} |->
            LET i == CHOOSE j \in 1..n :
                        docPages[j].ref = ref
                        /\ \A k \in (j+1)..n : docPages[k].ref # ref
            IN  [docPages[i].obj EXCEPT
                    !.CropBox = CropBoxOf(BBoxAt(bboxes, i),
                                   SelectMargins(i - 1, margins, altmargins))]]

(***************************************************************************)
(* crop(): the trailer, lines 106-110                                      *)
(***************************************************************************)
\* mutant: a /Prev already in the trailer is kept
TrailerWithPrev_KeepOld(trailer, prev) ==
    [k \in (DOMAIN trailer) \cup {"/Prev"} |->
        IF k \in DOMAIN trailer THEN trailer[k] ELSE prev]

\* trailer = DictionaryObject(pdfrdr.trailer); trailer['/Prev'] = prev
TrailerWithPrev(trailer, prev) ==
    [k \in (DOMAIN trailer) \cup {"/Prev"} |->
        IF k = "/Prev" THEN prev ELSE trailer[k]]

(***************************************************************************)
(* crop(): the appended revision, lines 118-144                            *)
(***************************************************************************)
\* sorted(refs, key = lambda ref: ref.idnum)
RECURSIVE SortByIdnum(_)
SortByIdnum(S) ==
    IF S = {} THEN << >>
    ELSE LET m == CHOOSE r \in S : \A q \in S : r.idnum <= q.idnum
         IN  <<m>> \o SortByIdnum(S \ {m})

\* mutant: every reference put into one subsection
Subsections_OneRun(refs) == IF refs = << >> THEN << >> ELSE <<refs>>

\* lines 129-134
Subsections(refs) ==
    LET sub[i \in 0..Len(refs)] ==
            IF i = 0 THEN << >>
            ELSE LET prev == sub[i-1]
                     ref  == refs[i]
                 IN  IF prev = << >>
                        \/ prev[Len(prev)][Len(prev[Len(prev)])].idnum # ref.idnum
                     THEN Append(prev, <<ref>>)
                     ELSE [prev EXCEPT ![Len(prev)] = Append(@, ref)]
    IN  sub[Len(refs)]

XrefLineLen == 20

\* mutant: the numbers written without zero padding
XrefLine_Unpadded(offset, generation) ==
    LET line == FmtD(offset) \o <<" ">> \o FmtD(generation)
                \o <<" ", "n", " ", "\n">>
    IN  SubSeq(line, 1, Min(XrefLineLen, Len(line)))

\* ('%010d %05d n \n' % (offset, generation))[:20]
XrefLine(offset, generation) ==
    LET line == FmtZero(10, offset) \o <<" ">> \o FmtZero(5, generation)
                \o <<" ", "n", " ", "\n">>
    IN  SubSeq(line, 1, Min(XrefLineLen, Len(line)))

\* bytes pyPdf's writeToStream produces for one dictionary
SerializedBytes == 57

\* '%d %d obj\n' % (ref.idnum, ref.generation)
ObjHeader(ref) ==
    FmtD(ref.idnum) \o <<" ">> \o FmtD(ref.generation) \o <<" ", "o", "b", "j", "\n">>

\* the loop of lines 120-124: the stream and the xref dictionary after it
WriteObjects(out, pages) ==
    LET refs == SortByIdnum(DOMAIN pages)
        st[i \in 0..Len(refs)] ==
            IF i = 0 THEN [out |-> out, xref |-> << >>]
            ELSE LET ref == refs[i]
                     o   == st[i-1].out
                 IN  [out  |-> o \o Text(ObjHeader(ref))
                                 \o Blob(SerializedBytes, pages[ref])
                                 \o Text(<<"\n", "e", "n", "d", "o", "b", "j", "\n">>),
                      xref |-> Append(st[i-1].xref,
                                      [ref |-> ref, offset |-> ByteLen(o)])]
    IN  st[Len(refs)]

XrefOffset(xref, ref) ==
    (CHOOSE e \in {xref[i] : i \in 1..Len(xref)} : e.ref = ref).offset

\* lines 136-140: one subsection of the table
SubsectionBytes(subsection, xref) ==
    LET lines[i \in 0..Len(subsection)] ==
            IF i = 0 THEN << >>
            ELSE lines[i-1] \o XrefLine(XrefOffset(xref, subsection[i]),
                                        subsection[i].generation)
    IN  FmtD(subsection[1].idnum) \o <<" ">> \o FmtD(Len(subsection))
        \o <<" ", "\n">> \o lines[Len(subsection)]

\* the whole with-block, lines 118-144, applied to the bytes of the file that
\* open(outfilename, 'ab') positions at their end
WriteRevision(out, pages, trailer) ==
    LET w     == WriteObjects(out, pages)
        start == ByteLen(w.out)
        subs  == Subsections(SortByIdnum({w.xref[i].ref : i \in 1..Len(w.xref)}))
        table[i \in 0..Len(subs)] ==
            IF i = 0 THEN << >>
            ELSE table[i-1] \o SubsectionBytes(subs[i], w.xref)
    IN  [out  |-> w.out \o Text(<<"x", "r", "e", "f", " ", "\n">>) \o Text(table[Len(subs)])
                  \o Text(<<"t", "r", "a", "i", "l", "e", "r", "\n">>) \o Blob(SerializedBytes, trailer)
                  \o Text(<<"\n", "s", "t", "a", "r", "t", "x", "r", "e", "f", "\n">> \o FmtD(start) \o <<"\n", "%", "%", "E", "O", "F", "\n">>),
         xref |-> w.xref,
         current_xref_start |-> start,
         subsections |-> subs]

(***************************************************************************)
(* Inputs                                                                  *)
(***************************************************************************)
MaxPages == 3

Ref(id, gen) == [idnum |-> id, generation |-> gen]

Page(id, gen) ==
    [ref |-> Ref(id, gen),
     obj |-> [kind |-> "page", MediaBox |-> <<0, 0, 612, 792>>, CropBox |-> << >>]]

\* pages in document order; object ids are not in page order
PagePool == <<Page(5, 0), Page(3, 0), Page(4, 1), Page(9, 0), Page(10, 2), Page(14, 0)>>

DocPagesOf(k) == SubSeq(PagePool, 1, Min(k, Len(PagePool)))

FixedBox == [kind |-> "repeat", box |-> <<100, 100, 500, 700>>]

GsOutput == <<"G", "P", "L", " ", "G", "h", "o", "s", "t", "s", "c", "r", "i", "p", "t", "\n", "%", "%", "B", "o", "u", "n", "d", "i", "n", "g", "B", "o", "x", ":", " ", "5", "0", " ", "5", "0", " ", "5", "6", "0", " ", "7", "4", "0", "\n", "%", "%", "H", "i", "R", "e", "s", "B", "o", "u", "n", "d", "i", "n", "g", "B", "o", "x", ":", " ", "5", "0", ".", "1", " ", "5", "0", ".", "2", " ", "5", "5", "9", ".", "9", " ", "7", "4", "0", "\n", "%", "%", "B", "o", "u", "n", "d", "i", "n", "g", "B", "o", "x", ":", " ", "4", "0", " ", "6", "0", " ", "5", "7", "0", " ", "7", "3", "0", "\n">>

MarginStrings == {<<"5">>, <<"1", " ", "2">>, <<"1", " ", "2", " ", "3">>, <<"1", " ", "2", " ", "3", " ", "4">>}

AltMarginStrings == {<<"0">>, <<"7", " ", "8">>}

\* tails of a PDF file, well formed and not
GoodTail == <<"t", "r", "a", "i", "l", "e", "r", "\n", "<", "<", "#", ">", ">", "\n", "s", "t", "a", "r", "t", "x", "r", "e", "f", "\n", "1", "1", "6", "\n", "%", "%", "E", "O", "F", "\n">>

Tails == {GoodTail, <<"s", "t", "a", "r", "t", "x", "r", "e", "f", "\n", "1", "1", "6", "\n", "%", "%", "E", "O", "F">>, <<"s", "t", "a", "r", "t", "x", "r", "e", "f", "\n", "1", "1", "6">>, <<"%", "%", "E", "O", "F", "\n">>, <<"x", "r", "e", "f", "\n", "0", " ", "1", "\n", "t", "r", "a", "i", "l", "e", "r", "\n">>, <<"s", "t", "a", "r", "t", "x", "r", "e", "f", "s", " ", "1", "2", " ", "%", "%", "E", "O", "F", "\n">>, <<"s", "t", "a", "r", "t", "x", "r", "e", "f", " ", "a", "b", "c", " ", "%", "%", "E", "O", "F", "\n">>, <<"s", "t", "a", "r", "t", "x", "r", "e", "f", "\n", "1", "1", "6", "\n", "%", "%", "E", "O", "F", "\n", "\n", "%", " ", "e", "n", "d", "\n">>}

\* body sizes: the file is shorter than, exactly, or longer than the window
BodySizes == {0, 100, Window - Len(GoodTail) - 2, Window - Len(GoodTail) - 1, 2000}

StreamOf(body, tail) ==
    (IF body = 0 THEN << >> ELSE Blob(body, NoObj) \o Text(<<"\n">>)) \o Text(tail)

IdPool == {3, 4, 5, 7, 9, 10, 14}

Offsets == {0, 9, 1024, 123456789, 2147483647}

Generations == {0, 1, 65535, 99999, 100000}

FnCalls ==
    [fn : {"findLastXrefStart"}, stream : {StreamOf(b, t) : b \in BodySizes, t \in Tails}]
    \cup [fn : {"Subsections"}, ids : SUBSET IdPool, generation : {0, 1}]
    \cup [fn : {"XrefLine"}, offset : Offsets, generation : Generations]
    \cup [fn : {"PageLoop"}, npages : 0..MaxPages,
          bboxes : {FixedBox, [kind |-> "list", boxes |-> ParseBBoxes(GsOutput)]},
          margins : MarginStrings,
          altmargins : {None} \cup {Some(a) : a \in AltMarginStrings}]

NotCalled == [kind |-> "none"]

(***************************************************************************)
(* The program: option processing, main() and crop() statement by statement*)
(***************************************************************************)
MaxArgs == 2

FileNames == {"a.pdf", "b.pdf"}

OutName == "out.pdf"

BoxFileName == "boxes.txt"

ArgLists == UNION {[1..n -> FileNames] : n \in 0..MaxArgs}

\* the trailer dictionary of the input, without and with a /Prev of its own
PlainTrailer == [k \in {"/Root", "/Size"} |-> IF k = "/Root" THEN 1 ELSE 20]

UpdatedTrailer ==
    [k \in {"/Root", "/Size", "/Prev"} |->
        IF k = "/Root" THEN 1 ELSE IF k = "/Size" THEN 20 ELSE 77]

\* a well-formed PDF file: a body of the given size, then the trailer and
\* the pointer to the cross-reference table
PdfFile(body, trailer) ==
    Blob(body, NoObj) \o Text(<<"\n", "t", "r", "a", "i", "l", "e", "r", "\n">>) \o Blob(SerializedBytes, trailer)
    \o Text(<<"\n", "s", "t", "a", "r", "t", "x", "r", "e", "f", "\n", "1", "1", "6", "\n", "%", "%", "E", "O", "F", "\n">>)

LongFile == PdfFile(2000, PlainTrailer)

UpdatedFile == PdfFile(3000, UpdatedTrailer)

ShortFile == PdfFile(100, PlainTrailer)

FileSystems ==
    {[name \in FileNames \cup {OutName, BoxFileName} |->
        IF name = BoxFileName THEN Text(GsOutput)
        ELSE IF name = OutName THEN Text(<<"o", "l", "d", "\n">>)
        ELSE IF name = "a.pdf" THEN a
        ELSE LongFile] : a \in {UpdatedFile, ShortFile}}

Geometries ==
    {[bbox |-> Some(<<"5", "0", " ", "5", "0", " ", "5", "6", "0", " ", "7", "4", "0">>), bboxes |-> None],
     [bbox |-> None, bboxes |-> Some(BoxFileName)],
     [bbox |-> None, bboxes |-> None]}

RawOptions ==
    {[password |-> pw, bbox |-> g.bbox, bboxes |-> g.bboxes, outfile |-> o,
      margins |-> <<"5">>, altmargins |-> Some(<<"0">>), resolution |-> "100"] :
        pw \in {None, Some("secret"), Some("wrong")}, g \in Geometries,
        o \in {None, Some(OutName)}}

\* what pyPdf makes of a file: its protection and its pages in document order
Documents ==
    {[encrypted |-> FALSE, userpw |-> "", infoOk |-> TRUE, pages |-> DocPagesOf(n)] :
        n \in 1..MaxPages}
    \cup {[encrypted |-> FALSE, userpw |-> "", infoOk |-> FALSE, pages |-> DocPagesOf(1)],
          [encrypted |-> TRUE, userpw |-> "", infoOk |-> TRUE, pages |-> DocPagesOf(1)],
          [encrypted |-> TRUE, userpw |-> "secret", infoOk |-> TRUE, pages |-> DocPagesOf(1)]}

Libraries ==
    {[name \in FileNames |-> IF name = "a.pdf" THEN d ELSE
        [encrypted |-> FALSE, userpw |-> "", infoOk |-> TRUE, pages |-> DocPagesOf(2)]] :
        d \in Documents}

\* pdfrdr.trailer: the trailer dictionary of the newest revision
ParseTrailer(f) ==
    LET toks == Tokens(f)
        i    == CHOOSE j \in 1..Len(toks) :
                    /\ toks[j].t = <<"t", "r", "a", "i", "l", "e", "r">>
                    /\ \A k \in (j+1)..Len(toks) : toks[k].t # <<"t", "r", "a", "i", "l", "e", "r">>
    IN  toks[i + 1].obj

\* what a run of 'gs -sDEVICE=bbox' can give: exit status and stderr
GsRuns ==
    {[returncode |-> 0, stderr |-> GsOutput],
     [returncode |-> 0, stderr |-> <<"G", "P", "L", " ", "G", "h", "o", "s", "t", "s", "c", "r", "i", "p", "t", "\n">>],
     [returncode |-> 1, stderr |-> <<"E", "r", "r", "o", "r", ":", " ", "/", "u", "n", "d", "e", "f", "i", "n", "e", "d", "f", "i", "l", "e", "n", "a", "m", "e", "\n">>]}

NoRun ==
    [doc |-> None, orig |-> << >>, readable |-> FALSE, attempts |-> << >>,
     bboxes |-> None, pages |-> << >>, prev_xref_start |-> 0, trailer |-> << >>,
     outfilename |-> "", written |-> FALSE]

Event(e) == [file |-> fi, ev |-> e]

Init ==
    /\ args \in ArgLists
    /\ rawopts \in RawOptions
    /\ opts = None
    /\ fs \in FileSystems
    /\ lib \in Libraries
    /\ pc = "start"
    /\ fi = 0
    /\ rd = NoRun
    /\ events = << >>
    /\ fnIn = None
    /\ fnOut = NotCalled

\* lines 175-202
ParseOptions ==
    /\ pc = "start"
    /\ opts' = ProcessOptions(rawopts)
    /\ IF args = << >> THEN pc' = "usage"
       ELSE IF Len(args) > 1 /\ rawopts.outfile.set THEN pc' = "usage"
       ELSE pc' = "main"
    /\ fi' = 1
    /\ UNCHANGED <<args, rawopts, fs, lib, rd, events, fnIn, fnOut>>

\* main(), lines 146-148: the next file, or the end of the list
CallCrop ==
    /\ pc = "main"
    /\ fi <= Len(args)
    /\ pc' = "open"
    /\ rd' = NoRun
    /\ events' = Append(events, Event("crop"))
    /\ UNCHANGED <<args, rawopts, opts, lib, fs, fi, fnIn, fnOut>>

MainReturns ==
    /\ pc = "main"
    /\ fi > Len(args)
    /\ pc' = "exit"
    /\ UNCHANGED <<args, rawopts, opts, lib, fs, fi, rd, events, fnIn, fnOut>>

\* an exception leaves crop(); main() has no handler, so it leaves main() too
\* and ends the program
Raised(e) ==
    /\ pc' = "crashed"
    /\ events' = Append(events, Event(e))

\* lines 46-47: the file is opened and handed to pyPdf
OpenInput ==
    /\ pc = "open"
    /\ rd' = [rd EXCEPT
                !.doc  = [encrypted |-> lib[args[fi]].encrypted,
                          userpw    |-> lib[args[fi]].userpw,
                          infoOk    |-> lib[args[fi]].infoOk,
                          pages     |-> lib[args[fi]].pages,
                          trailer   |-> ParseTrailer(fs[args[fi]])],
                !.orig = fs[args[fi]]]
    /\ pc' = "access"
    /\ UNCHANGED <<args, rawopts, opts, lib, fs, fi, events, fnIn, fnOut>>

\* lines 49-68: every failure ends in a message, none in an exception
NegotiateAccess ==
    /\ pc = "access"
    /\ LET r == AccessNegotiation(rd.doc, opts.password)
       IN  /\ rd' = [rd EXCEPT !.readable = r.readable, !.attempts = r.attempts]
           /\ events' = Append(events,
                  Event(IF r.readable THEN "access_ok" ELSE "access_denied"))
    /\ pc' = "bbox"
    /\ UNCHANGED <<args, rawopts, opts, lib, fs, fi, fnIn, fnOut>>

\* the list comprehension and the emptiness test, lines 82-87
BBoxesParsed(stderr) ==
    LET bboxes == ParseBBoxes(stderr)
    IN  IF bboxes = << >> THEN Raised("EnvironmentError")
        ELSE /\ rd' = [rd EXCEPT !.bboxes = [kind |-> "list", boxes |-> bboxes]]
             /\ pc' = "pages"
             /\ events' = Append(events, Event("bbox"))

\* lines 88-89
BBoxFixed ==
    /\ pc = "bbox"
    /\ opts.bbox.set
    /\ rd' = [rd EXCEPT !.bboxes = [kind |-> "repeat", box |-> opts.bbox.v]]
    /\ pc' = "pages"
    /\ events' = Append(events, Event("bbox"))
    /\ UNCHANGED <<args, rawopts, opts, lib, fs, fi, fnIn, fnOut>>

\* lines 79-87
BBoxFromFile ==
    /\ pc = "bbox"
    /\ ~opts.bbox.set
    /\ opts.bboxes.set
    /\ LET bbfile == fs[opts.bboxes.v]
       IN  BBoxesParsed([i \in 1..Len(bbfile) |-> bbfile[i].c])
    /\ IF pc' = "crashed" THEN rd' = rd ELSE TRUE
    /\ UNCHANGED <<args, rawopts, opts, lib, fs, fi, fnIn, fnOut>>

\* lines 72-78 and 82-87
BBoxFromGs ==
    /\ pc = "bbox"
    /\ ~opts.bbox.set
    /\ ~opts.bboxes.set
    /\ \E subp \in GsRuns :
          IF subp.returncode # 0 THEN Raised("EnvironmentError")
          ELSE BBoxesParsed(subp.stderr)
    /\ IF pc' = "crashed" THEN rd' = rd ELSE TRUE
    /\ UNCHANGED <<args, rawopts, opts, lib, fs, fi, fnIn, fnOut>>

\* lines 91-104; pyPdf refuses to read the pages of an encrypted document
\* that has not been decrypted
CropPages ==
    /\ pc = "pages"
    /\ IF rd.doc.encrypted /\ ~rd.readable
       THEN Raised("Exception") /\ rd' = rd
       ELSE /\ rd' = [rd EXCEPT !.pages = PageLoop(rd.doc.pages, rd.bboxes,
                                                    opts.margins, opts.altmargins)]
            /\ pc' = "locate"
            /\ events' = Append(events, Event("cropbox"))
    /\ UNCHANGED <<args, rawopts, opts, lib, fs, fi, fnIn, fnOut>>

\* lines 106-110
LocateTail ==
    /\ pc = "locate"
    /\ LET r == findLastXrefStart(fs[args[fi]])
       IN  IF r.kind = "raise" THEN Raised(r.exc) /\ rd' = rd
           ELSE /\ rd' = [rd EXCEPT
                            !.prev_xref_start = r.value,
                            !.trailer = TrailerWithPrev(rd.doc.trailer, r.value)]
                /\ pc' = "copy"
                /\ events' = events
    /\ UNCHANGED <<args, rawopts, opts, lib, fs, fi, fnIn, fnOut>>

\* lines 112-116
ChooseOutput ==
    /\ pc = "copy"
    /\ IF opts.outfile.set
       THEN /\ fs' = [fs EXCEPT ![opts.outfile.v] = fs[args[fi]]]
            /\ rd' = [rd EXCEPT !.outfilename = opts.outfile.v]
       ELSE /\ fs' = fs
            /\ rd' = [rd EXCEPT !.outfilename = args[fi]]
    /\ pc' = "write"
    /\ UNCHANGED <<args, rawopts, opts, lib, fi, events, fnIn, fnOut>>

\* mutant: the output opened with 'wb'
OpenForAppend_Truncating(content) == << >>

\* open(outfilename, 'ab'): the bytes stay, the position is at their end
OpenForAppend(content) == content

\* lines 118-144, then the return to main()'s loop
AppendRevision ==
    /\ pc = "write"
    /\ fs' = [fs EXCEPT ![rd.outfilename] =
                WriteRevision(OpenForAppend(@), rd.pages, rd.trailer).out]
    /\ rd' = [rd EXCEPT !.written = TRUE]
    /\ events' = Append(events, Event("append"))
    /\ pc' = "main"
    /\ fi' = fi + 1
    /\ UNCHANGED <<args, rawopts, opts, lib, fnIn, fnOut>>

Next ==
    \/ ParseOptions
    \/ CallCrop
    \/ MainReturns
    \/ OpenInput
    \/ NegotiateAccess
    \/ BBoxFixed
    \/ BBoxFromFile
    \/ BBoxFromGs
    \/ CropPages
    \/ LocateTail
    \/ ChooseOutput
    \/ AppendRevision

Spec == Init /\ [][Next]_vars


(***************************************************************************)
(* Claims about the program (checked under Spec)                           *)
(***************************************************************************)
Terminated == pc \in {"exit", "crashed", "usage"}

Happened(i, e) == \E k \in 1..Len(events) : events[k] = [file |-> i, ev |-> e]

Failures == {"IOError", "IndexError", "ValueError", "EnvironmentError", "Exception"}

\* C2: when the processing of the file at position i fails, the error is
\* caught at the per-file boundary and every later file of the list is still
\* attempted: once the program has ended, crop has been invoked on every
\* position after a failing one.
C2_LaterFilesAttempted ==
    Terminated =>
        \A i \in 1..Len(args) :
            (\E e \in Failures : Happened(i, e)) =>
                \A j \in (i+1)..Len(args) : Happened(j, "crop")

\* C3: access is negotiated by a metadata read, then the empty password,
\* then the supplied password if there is one, stopping at the first success;
\* when every attempt fails the file is given up: no bounding-box resolution,
\* crop-box mutation or append happens for it afterwards.
C3_AccessDeniedIsTerminal ==
    /\ rd.attempts # << >> =>
          /\ \E n \in 1..3 :
                rd.attempts = SubSeq(<<"info", "decrypt_empty", "decrypt_given">>, 1, n)
          /\ Len(rd.attempts) = 3 => rawopts.password.set
    /\ \A k \in 1..Len(events) :
          events[k].ev = "access_denied" =>
              \A m \in (k+1)..Len(events) :
                  events[m].file = events[k].file =>
                      events[m].ev \notin {"bbox", "cropbox", "append"}

\* C6: after a successful run the output file is the input's bytes,
\* unchanged and in place, followed by the appended revision, in place and
\* with an explicit output path alike.
C6_OutputExtendsInput ==
    rd.written =>
        LET out == fs[rd.outfilename]
        IN  /\ Len(out) > Len(rd.orig)
            /\ SubSeq(out, 1, Len(rd.orig)) = rd.orig
            /\ ByteLen(out) > ByteLen(rd.orig)

C6_Witness ==
    /\ rd.written
    /\ opts.outfile.set
    /\ rd.outfilename = OutName
    /\ rd.orig = UpdatedFile
    /\ fs[args[1]] = UpdatedFile
    /\ SubSeq(fs[OutName], 1, Len(UpdatedFile)) = UpdatedFile
    /\ Len(fs[OutName]) > Len(UpdatedFile)

\* the appended revision as a reader sees it: the tokens of the output, the
\* last startxref and trailer among them
Word(toks, w) ==
    CHOOSE j \in 1..Len(toks) :
        toks[j].t = w /\ \A k \in (j+1)..Len(toks) : toks[k].t # w

EmittedTrailer(f) == LET toks == Tokens(f) IN toks[Word(toks, <<"t", "r", "a", "i", "l", "e", "r">>) + 1].obj

\* C7: the trailer of an emitted revision has /Prev equal to the integer the
\* locator returns on the input of this run, whatever /Prev the existing
\* trailer had, and every other key of the existing trailer unchanged.
C7_PrevIsLocatedTail ==
    rd.written =>
        LET t   == EmittedTrailer(fs[rd.outfilename])
            old == rd.doc.trailer
            loc == findLastXrefStart(rd.orig)
        IN  /\ loc.kind = "ok"
            /\ DOMAIN t = (DOMAIN old) \cup {"/Prev"}
            /\ t["/Prev"] = loc.value
            /\ t["/Prev"] = ParseInt(Tokens(rd.orig)[Word(Tokens(rd.orig), StartXref) + 1].t)
            /\ \A k \in (DOMAIN old) \ {"/Prev"} : t[k] = old[k]

\* the second run over the same file: the existing trailer has the /Prev the
\* first run wrote, and the new one points at the first run's table
C7_Witness ==
    /\ rd.written
    /\ fi = 3
    /\ args[1] = args[2]
    /\ "/Prev" \in DOMAIN rd.doc.trailer
    /\ rd.doc.trailer["/Prev"] = 116
    /\ EmittedTrailer(fs[rd.outfilename])["/Prev"] > ByteLen(UpdatedFile)

\* the entries of the table whose subsection headers start at token i and
\* end before token stop, read positionally
RECURSIVE TableEntries(_, _, _)
TableEntries(toks, i, stop) ==
    IF i >= stop THEN {}
    ELSE LET first == ParseInt(toks[i].t)
             count == ParseInt(toks[i + 1].t)
         IN  {[id     |-> first + j,
               offset |-> ParseInt(toks[i + 2 + 3*j].t),
               gen    |-> ParseInt(toks[i + 3 + 3*j].t),
               mark   |-> toks[i + 4 + 3*j].t] : j \in 0..(count - 1)}
             \cup TableEntries(toks, i + 2 + 3*count, stop)

TokenAt(toks, offset) == {j \in 1..Len(toks) : toks[j].off = offset}

\* C10: in the appended revision the objects are written in ascending id
\* order; a reader taking the j-th entry of a subsection '<start> <count>'
\* for id start + j finds, for every touched page, the offset at which that
\* page's '<id> <generation> obj' header begins, with the header's
\* generation; the number after startxref is the offset of this revision's
\* 'xref' keyword; and the ids of the table are exactly the pages whose
\* CropBox was set, each once.
C10_TableResolvesPages ==
    rd.written =>
        LET f       == fs[rd.outfilename]
            toks    == Tokens(f)
            sx      == Word(toks, StartXref)
            start   == ParseInt(toks[sx + 1].t)
            tr      == Word(toks, <<"t", "r", "a", "i", "l", "e", "r">>)
            table   == CHOOSE j \in TokenAt(toks, start) : TRUE
            ents    == TableEntries(toks, table + 1, tr)
        IN  /\ TokenAt(toks, start) # {}
            /\ toks[table].t = <<"x", "r", "e", "f">>
            /\ start >= ByteLen(rd.orig)
            /\ {e.id : e \in ents} = {r.idnum : r \in DOMAIN rd.pages}
            /\ Cardinality(ents) = Cardinality(DOMAIN rd.pages)
            /\ \A e \in ents :
                  /\ e.mark = <<"n">>
                  /\ e.offset >= ByteLen(rd.orig)
                  /\ \E j \in TokenAt(toks, e.offset) :
                        /\ toks[j].t = FmtD(e.id)
                        /\ toks[j + 1].t = FmtD(e.gen)
                        /\ toks[j + 2].t = <<"o", "b", "j">>
                        /\ [idnum |-> e.id, generation |-> e.gen] \in DOMAIN rd.pages
                        /\ toks[j + 3].obj = rd.pages[[idnum |-> e.id, generation |-> e.gen]]
            /\ \A d, e \in ents : d.id < e.id => d.offset < e.offset

\* three pages with ids 5, 3, 4 in page order, written as 3, 4, 5
C10_Witness ==
    /\ rd.written
    /\ {r.idnum : r \in DOMAIN rd.pages} = {3, 4, 5}
    /\ LET toks == Tokens(fs[rd.outfilename])
       IN  /\ TokenAt(toks, ByteLen(rd.orig)) # {}
           /\ \A j \in TokenAt(toks, ByteLen(rd.orig)) : toks[j].t = <<"3">>


(***************************************************************************)
(* The functions of the program, each applied to one input                 *)
(***************************************************************************)
InitFn ==
    /\ fnIn \in FnCalls
    /\ fnOut = NotCalled
    /\ args = << >>
    /\ rawopts = None
    /\ opts = None
    /\ fs = << >>
    /\ lib = << >>
    /\ pc = "idle"
    /\ fi = 0
    /\ rd = NoRun
    /\ events = << >>

CallFindLastXrefStart ==
    /\ fnIn.fn = "findLastXrefStart"
    /\ fnOut = NotCalled
    /\ fnOut' = findLastXrefStart(fnIn.stream)
    /\ UNCHANGED <<fnIn, mainVars>>

CallSubsections ==
    /\ fnIn.fn = "Subsections"
    /\ fnOut = NotCalled
    /\ fnOut' = Ok(Subsections(SortByIdnum({Ref(i, fnIn.generation) : i \in fnIn.ids})))
    /\ UNCHANGED <<fnIn, mainVars>>

CallXrefLine ==
    /\ fnIn.fn = "XrefLine"
    /\ fnOut = NotCalled
    /\ fnOut' = Ok(XrefLine(fnIn.offset, fnIn.generation))
    /\ UNCHANGED <<fnIn, mainVars>>

\* option processing followed by the page loop
CallPageLoop ==
    /\ fnIn.fn = "PageLoop"
    /\ fnOut = NotCalled
    /\ LET o == ProcessOptions([margins |-> fnIn.margins,
                                altmargins |-> fnIn.altmargins, bbox |-> None])
       IN  fnOut' = [kind |-> "ok", opts |-> o,
                     value |-> PageLoop(DocPagesOf(fnIn.npages), fnIn.bboxes,
                                        o.margins, o.altmargins)]
    /\ UNCHANGED <<fnIn, mainVars>>

NextFn ==
    \/ CallFindLastXrefStart
    \/ CallSubsections
    \/ CallXrefLine
    \/ CallPageLoop

SpecFn == InitFn /\ [][NextFn]_vars

(***************************************************************************)
(* Claims about the functions (checked under SpecFn)                       *)
(***************************************************************************)
Called(f) == fnIn.fn = f /\ fnOut # NotCalled

RECURSIVE Flatten(_)
Flatten(ss) == IF ss = << >> THEN << >> ELSE Head(ss) \o Flatten(Tail(ss))

RunIds(subsections) ==
    [k \in 1..Len(subsections) |->
        [j \in 1..Len(subsections[k]) |-> subsections[k][j].idnum]]

\* C1: the subsections computed for a set of distinct ids are the maximal
\* runs of consecutive ids, in ascending order: every id of the set is in
\* exactly one run, inside a run each id is one greater than the one before,
\* and a run never starts one above the end of the run before it.
C1_MaximalRuns ==
    Called("Subsections") =>
        LET runs == RunIds(fnOut.value)
            flat == Flatten(runs)
        IN  /\ {flat[i] : i \in 1..Len(flat)} = fnIn.ids
            /\ \A i \in 2..Len(flat) : flat[i-1] < flat[i]
            /\ \A k \in 1..Len(runs) :
                  /\ runs[k] # << >>
                  /\ \A j \in 2..Len(runs[k]) : runs[k][j] = runs[k][j-1] + 1
            /\ \A k \in 2..Len(runs) :
                  runs[k][1] # runs[k-1][Len(runs[k-1])] + 1

\* the tokens of the last min(length, 1024) bytes
TailTokens(stream) == Split(LastBytes(stream, Min(ByteLen(stream), Window)))

\* C5: the locator has exactly two outcomes: when the third-to-last token of
\* the last min(length, 1024) bytes is 'startxref' it returns the
\* second-to-last token as an integer (also for files shorter than 1024
\* bytes); otherwise it fails with MalformedDocument (the ValueError the
\* function raises itself) and with no other kind of error.
C5_LocatorTotal ==
    Called("findLastXrefStart") =>
        LET toks == TailTokens(fnIn.stream)
            n    == Len(toks)
        IN  IF n >= 3 /\ toks[n-2] = StartXref
            THEN IsInt(toks[n-1]) => fnOut = Ok(ParseInt(toks[n-1]))
            ELSE fnOut = Raise("ValueError")

\* the fixed layout of an in-use xref entry for (offset, generation)
EntryLayout(line, offset, generation) ==
    /\ Len(line) = XrefLineLen
    /\ \A i \in 1..10 : IsDigit(line[i])
    /\ ParseInt(SubSeq(line, 1, 10)) = offset
    /\ line[11] = " "
    /\ \A i \in 12..16 : IsDigit(line[i])
    /\ ParseInt(SubSeq(line, 12, 16)) = generation
    /\ line[17] = " "
    /\ line[18] = "n"
    /\ SubSeq(line, 19, 20) = <<" ", "\n">>

\* C8 as stated: for every offset and generation the emitted line is 20
\* bytes: 10-digit offset, space, 5-digit generation, space, 'n' and a
\* 2-character line terminator.
C8_EveryLineHasLayout ==
    Called("XrefLine") => EntryLayout(fnOut.value, fnIn.offset, fnIn.generation)

\* C8 amended: every emitted line is exactly 20 bytes, and it has the layout
\* (10-digit offset, space, 5-digit generation, space, 'n', 2-character
\* terminator) whenever the offset has at most 10 digits and the generation
\* at most 5; never is the entry marked free.
C8_LayoutWithinWidths ==
    Called("XrefLine") =>
        /\ Len(fnOut.value) = XrefLineLen
        /\ \A i \in 1..Len(fnOut.value) : fnOut.value[i] # "f"
        /\ (Len(FmtD(fnIn.offset)) <= 10 /\ Len(FmtD(fnIn.generation)) <= 5)
              => EntryLayout(fnOut.value, fnIn.offset, fnIn.generation)

C8_Witness ==
    /\ Called("XrefLine")
    /\ fnIn.offset = 1024
    /\ fnIn.generation = 65535
    /\ fnOut.value = <<"0", "0", "0", "0", "0", "0", "1", "0", "2", "4", " ", "6", "5", "5", "3", "5", " ", "n", " ", "\n">>

\* every page written has its bounding box widened by the alternate margins
\* when its position (1-based, in page order) is in altPositions, and by the
\* primary margins otherwise
CropBoxesFollow(altPositions) ==
    LET docPages == DocPagesOf(fnIn.npages)
        primary   == fnOut.opts.margins
        alternate == fnOut.opts.altmargins
    IN  \A i \in 1..Len(docPages) :
            docPages[i].ref \in DOMAIN fnOut.value =>
                LET b == BBoxAt(fnIn.bboxes, i)
                    q == IF i \in altPositions THEN alternate ELSE primary
                IN  fnOut.value[docPages[i].ref].CropBox =
                        <<b[1] - q[1], b[2] - q[2], b[3] + q[3], b[4] + q[4]>>

C9_EvenMarginOnEvenPages ==
    Called("PageLoop") => CropBoxesFollow({i \in 1..fnIn.npages : i % 2 = 0})

====
